---- MODULE Spec2Model ----
(***************************************************************************)
(* Verification model of the NDISuite backend: the file ingestion          *)
(* pipeline, the live transcription pipeline, the transcript embedding     *)
(* task, the RAG context assembler of generate_report_task, the            *)
(* rate_limit decorator, the OAuth state parameter, the legacy output      *)
(* configurations, and report generation and export.  Each subsystem has   *)
(* its own specification over the shared state; a specification leaves     *)
(* the other subsystems' state unchanged.                                  *)
(***************************************************************************)
EXTENDS Integers, Sequences, FiniteSets, TLC

VARIABLES
    files,        \* InputFile rows: file id -> row or NoRow
    chunkRows,    \* ProcessedChunk rows
    transcripts,  \* Transcript rows: transcript id -> row or NoRow
    mongoDocs,    \* documents of the MongoDB 'transcripts' collection
    chroma,       \* vectors persisted under VECTOR_STORE_PATH, all collections
    rag,          \* locals of the generate_report_task field iteration that
                  \* just ran (NoRag once another operation has run)
    lastOp,       \* the operation that ran last and its outcome
    queue,        \* Celery: pending process_file_task messages per file id
    signalEnq,    \* per file id, messages the post_save receiver has sent
    createdIds,   \* ids of the InputFile rows the upload endpoint created
    ingestRuns,   \* per file id, process_file_task executions so far
    conn,         \* the TranscriptionConsumer of the WebSocket connection and
                  \* its TranscriptionService
    groups,       \* channel-layer groups the connection's channel is in
    segments,     \* TranscriptionSegment rows
    heard,        \* per transcript, the segments Whisper has returned for it
    embedQueue,   \* Celery: pending embed_transcript_task messages
    cache,        \* the Django cache: key -> entry or NoEntry
    now,          \* time.time(), in seconds
    window,       \* per key, start and request count of the current window
    lastResp,     \* the response to the last rate-limited request
    oauthCache,   \* the "oauth_state:<hash>" entries of the Django cache
    issued,       \* state values generate_secure_state has returned
    validating,   \* per request thread, where it is in validate_state
    accepts,      \* per state value, validate_state calls that accepted it
    oauthResp,    \* what the last finished validate_state call returned
    outConfigs,   \* sessions that have an OutputConfiguration
    outFields,    \* per configuration, its OutputField rows in creation order
    outResp,      \* the response to the last output-configuration request
    templates,    \* Template rows: template id -> structure or NoTemplate
    reports,      \* Report rows: report id -> row or NoRow
    repFields,    \* OutputField rows of the reports
    versions,     \* ReportVersion rows
    exported,     \* ExportedReport rows
    genQueue,     \* Celery: pending generate_report_task messages per report
    exportQueue,  \* Celery: pending export_report_task messages
    genRuns,      \* generate_report_task executions that reached the LLM
    repResp,      \* the response to the report request just handled
    taskResult    \* what the generate_report_task run just finished returned

ingestVars == <<queue, signalEnq, createdIds, ingestRuns>>
transVars == <<conn, groups, segments, heard, embedQueue>>
rateVars == <<cache, now, window, lastResp>>
baseVars == <<files, chunkRows, transcripts, mongoDocs, chroma, rag, lastOp,
              ingestVars, transVars, rateVars>>
oauthVars == <<oauthCache, issued, validating, accepts, oauthResp>>
outVars == <<outConfigs, outFields, outResp>>
reportVars == <<templates, reports, repFields, versions, exported, genQueue,
                exportQueue, genRuns, repResp, taskResult>>
moreVars == <<oauthVars, outVars, reportVars>>
exceptOauth == <<baseVars, outVars, reportVars>>
exceptOut == <<baseVars, oauthVars, reportVars>>
exceptReport == <<baseVars, oauthVars, outVars>>
vars == <<files, chunkRows, transcripts, mongoDocs, chroma, rag, lastOp,
          queue, signalEnq, createdIds, ingestRuns,
          conn, groups, segments, heard, embedQueue,
          cache, now, window, lastResp,
          oauthCache, issued, validating, accepts, oauthResp,
          outConfigs, outFields, outResp,
          templates, reports, repFields, versions, exported, genQueue,
          exportQueue, genRuns, repResp, taskResult>>

(***************************************************************************)
(* Bounds                                                                  *)
(***************************************************************************)
RAG_TOP_K == 2          \* settings.RAG_TOP_K (environment-configurable)
MaxEmbedRuns == 1       \* times one transcript is embedded
MaxIngestChunks == 1    \* chunks the splitter yields for an ingested file
MaxLegacy == 1          \* vectors in the store not written by the two pipelines
MaxIngestRuns == 2      \* process_file_task executions per file

(***************************************************************************)
(* Value spaces                                                            *)
(***************************************************************************)
None == "None"
NoRow == [exists |-> FALSE]
Sessions == {"s1", "s2"}
FileIds == {"f1", "f2"}
TranscriptIds == {"t1", "t2", "t3", "t4", "t5"}
SimValues == {1, 2}
NoSim == -1                     \* no "similarity" key in the metadata
DocumentChunks == "document_chunks"

\* f"session_{session.id}"
SessionCollection(s) == "session_" \o s

\* d.metadata.get(key): a key the metadata lacks reads as None
Vector(coll, file_id, session_id, type, transcript_id, idx, run) ==
    [coll |-> coll, file_id |-> file_id, session_id |-> session_id,
     type |-> type, transcript_id |-> transcript_id,
     chunk_index |-> idx, run |-> run, similarity |-> NoSim]

(***************************************************************************)
(* File ingestion: what _store_embedding writes                            *)
(***************************************************************************)
\* metadata {chunk_id, file_id, chunk_index, source_type, filename}, no
\* session_id and no type, in the collection "document_chunks"
StoreEmbedding(f, idx, run) ==
    Vector(DocumentChunks, f, None, None, None, idx, run)

(***************************************************************************)
(* Transcript embedding                                                    *)
(***************************************************************************)
\* str(ObjectId): the stored reference is the string form of the id
ObjectId(n) == [oid |-> n]
StrOf(id) == [str |-> id.oid]
NoMongoId == [str |-> 0]        \* mongo_id left blank

\* collection.find_one({"_id": key}): the documents whose _id equals key
\* (at most one; empty when find_one returns None)
FindOne(docs, key) == {d \in docs : d._id = key}

\* RecursiveCharacterTextSplitter.split_text: a text is a sequence of blocks
\* of at most chunk_size characters, one chunk per block
SplitText(text) == [i \in 1..Len(text) |-> text[i]]

\* the text embed_transcript_task embeds: transcript.text, replaced by the
\* MongoDB document's text when the reference resolves to a non-empty one
EmbedFullText(t) ==
    IF t.mongo_id # NoMongoId
    THEN LET doc == FindOne(mongoDocs, t.mongo_id)
         IN  IF \E d \in doc : d.text # <<>>
             THEN (CHOOSE d \in doc : d.text # <<>>).text
             ELSE t.text
    ELSE t.text

\* the task without its status check
EmbedOutcomeNoStatusCheck(tid) ==
    IF transcripts[tid] = NoRow THEN "not_found"
    ELSE IF EmbedFullText(transcripts[tid]) = <<>> THEN "no_text"
    ELSE "embedded"

EmbedOutcome(tid) ==
    IF transcripts[tid] = NoRow THEN "not_found"
    ELSE IF transcripts[tid].status # "completed" THEN "not_completed"
    ELSE IF EmbedFullText(transcripts[tid]) = <<>> THEN "no_text"
    ELSE "embedded"

\* session whose collection and session_id metadata the chunks get
EmbedSession(t) == t.session

EmbedRuns(tid) ==
    Cardinality({v.run : v \in {w \in chroma : w.transcript_id = tid}})

EmbedDocuments(tid, run) ==
    LET t == transcripts[tid]
        chunks == SplitText(EmbedFullText(t))
    IN  {Vector(SessionCollection(EmbedSession(t)), None, EmbedSession(t),
                "transcript", tid, i, run) : i \in DOMAIN chunks}

embed_transcript_task(tid) ==
    /\ EmbedRuns(tid) < MaxEmbedRuns
    /\ chroma' = IF EmbedOutcome(tid) = "embedded"
                 THEN chroma \cup EmbedDocuments(tid, EmbedRuns(tid) + 1)
                 ELSE chroma
    /\ lastOp' = [name |-> "embed_transcript_task", arg |-> tid,
                  result |-> EmbedOutcome(tid)]

(***************************************************************************)
(* RAG context assembly of generate_report_task                            *)
(***************************************************************************)
\* file_ids = [str(file.id) for file in session.files.all()]
SessionFileIds(s) == {f \in FileIds : files[f] # NoRow /\ files[f].session = s}

\* filter {"file_id": {"$in": file_ids}, "session_id": str(session.id)}
DocFilterNoFileId(v, file_ids, s) == v.session_id = s
DocFilter(v, file_ids, s) == v.file_id \in file_ids /\ v.session_id = s

\* filter {"session_id": str(session.id), "type": "transcript"}
TranscriptFilter(v, s) == v.session_id = s /\ v.type = "transcript"

\* collection the document retriever searches
DocCollection(s) == SessionCollection(s)

\* collection the transcript retriever searches
TranscriptCollection(s) == SessionCollection(s)

Min(a, b) == IF a < b THEN a ELSE b

\* retriever.get_relevant_documents: k of the vectors that pass the filter
\* (all of them when fewer pass), in the order and with the similarity
\* metadata the search attaches, if any
Retrievals(matches) ==
    LET n == Min(RAG_TOP_K, Cardinality(matches))
        picks == {q \in [1..n -> matches] :
                     \A i, j \in 1..n : i # j => q[i] # q[j]}
        sims == [1..n -> SimValues \cup {NoSim}]
    IN  {[i \in 1..n |-> [q[i] EXCEPT !.similarity = s[i]]] :
             q \in picks, s \in sims}

\* key=lambda d: d.metadata.get("similarity", 0)
SimilarityKey(d) == IF d.similarity = NoSim THEN 0 ELSE d.similarity

\* position of d in a list already sorted descending: after every element
\* whose key is not smaller (list.sort is stable, also with reverse=True)
RECURSIVE InsertDescending(_, _)
InsertDescending(sorted, d) ==
    IF sorted = <<>> THEN <<d>>
    ELSE IF SimilarityKey(Head(sorted)) >= SimilarityKey(d)
         THEN <<Head(sorted)>> \o InsertDescending(Tail(sorted), d)
         ELSE <<d>> \o sorted

RECURSIVE SortFrom(_, _)
SortFrom(sorted, rest) ==
    IF rest = <<>> THEN sorted
    ELSE SortFrom(InsertDescending(sorted, Head(rest)), Tail(rest))

\* all_chunks.sort(key=..., reverse=True)
SortBySimilarityNoSort(chunks) == chunks
SortBySimilarity(chunks) == SortFrom(<<>>, chunks)

\* all_chunks[:settings.RAG_TOP_K]
Trim(chunks) == SubSeq(chunks, 1, Min(RAG_TOP_K, Len(chunks)))

NoRag == [session |-> None, doc_chunks |-> <<>>, trans_chunks |-> <<>>,
          all_chunks |-> <<>>, context |-> <<>>, doc_ok |-> TRUE,
          trans_ok |-> TRUE]

(***************************************************************************)
(* Initial values of the transcription and rate-limiting state             *)
(***************************************************************************)
Anonymous == "anonymous"
NoEntry == [count |-> 0, timestamp |-> 0, expires |-> -1]
NoWindow == [start |-> -1, requests |-> 0, served |-> 0]
Prefixes == {"auth", "soft"}
Ips == {"ip1", "ip2"}
Keys == {<<"auth", "ip1">>, <<"auth", "ip2">>, <<"soft", "ip1">>}

\* a consumer that has not run connect()
IdleConn ==
    [state |-> "idle", close_code |-> 0, user |-> Anonymous,
     session_id |-> None, has_service |-> FALSE, is_streaming |-> FALSE,
     transcript |-> None, svc_streaming |-> FALSE, svc_chunks |-> 0,
     svc_transcript |-> None]

InitIdleTranscription ==
    /\ conn = IdleConn
    /\ groups = {}
    /\ segments = {}
    /\ heard = [t \in TranscriptIds |-> <<>>]
    /\ embedQueue = [t \in TranscriptIds |-> 0]

InitIdleRate ==
    /\ cache = [k \in Keys |-> NoEntry]
    /\ now = 0
    /\ window = [k \in Keys |-> NoWindow]
    /\ lastResp = [key |-> <<"auth", "ip1">>, status |-> 0,
                   view_called |-> FALSE]

\* OAuth state values.  server_state is a fresh uuid4, modelled by the
\* number of the generate_secure_state call
MaxStates == 2          \* generate_secure_state calls in one behaviour
ClientStates == {"", "app"}
Threads == {"w1", "w2"}

\* f"{server_state}:{client_state}" if client_state else server_state
CombinedState(n, client_state) ==
    IF client_state # "" THEN <<n, client_state>> ELSE <<n>>

\* hashlib.sha256(combined_state.encode()).hexdigest()
StateHash(combined_state) == [sha256 |-> combined_state]

EmptyState == [sha256 |-> <<>>]              \* state parameter absent or ''
ForgedState == [sha256 |-> <<0, "forged">>]  \* a value the server never made
StateValues ==
    {StateHash(CombinedState(n, c)) : n \in 1..(MaxStates + 1),
                                      c \in ClientStates}
        \cup {EmptyState, ForgedState}

IdleThread == [pc |-> "idle", state |-> EmptyState, stored |-> <<>>]
NoOauthResp == [thread |-> None, state |-> EmptyState, is_valid |-> FALSE,
                client_state |-> "", error |-> None]

InitIdleOauth ==
    /\ oauthCache = {}
    /\ issued = {}
    /\ validating = [w \in Threads |-> IdleThread]
    /\ accepts = [v \in StateValues |-> 0]
    /\ oauthResp = NoOauthResp

\* legacy output configurations
MAX_FIELDS == 7
NoOutResp == [op |-> "none", config |-> None, status |-> 0, before |-> 0]

InitIdleOut ==
    /\ outConfigs = {}
    /\ outFields = [s \in Sessions |-> <<>>]
    /\ outResp = NoOutResp

\* reports and templates
TemplateIds == {"progress", "listed", "flat"}
ReportIds == {"r1"}
NoTemplate == [exists |-> FALSE]
NoRepResp == [op |-> "none", report |-> None, code |-> 0, format |-> None,
              before |-> NoRow, gen_before |-> 0, export_before |-> {}]
NoTaskResult == [report |-> None, success |-> FALSE, error |-> None,
                 run |-> 0, llm_failed |-> {}, llm_ok |-> {}]

InitIdleReport ==
    /\ templates = [t \in TemplateIds |-> NoTemplate]
    /\ reports = [r \in ReportIds |-> NoRow]
    /\ repFields = {}
    /\ versions = {}
    /\ exported = {}
    /\ genQueue = [r \in ReportIds |-> 0]
    /\ exportQueue = {}
    /\ genRuns = 0
    /\ repResp = NoRepResp
    /\ taskResult = NoTaskResult

InitIdleMore == InitIdleOauth /\ InitIdleOut /\ InitIdleReport

\* one iteration of the field loop for a report of session sid: docOk and
\* transOk say whether the retriever call returned or raised
GenerateReportField(sid, docOk, transOk) ==
    LET s == sid
        file_ids == SessionFileIds(s)
        docMatches == {v \in chroma : v.coll = DocCollection(s)
                                      /\ DocFilter(v, file_ids, s)}
        transMatches == {v \in chroma : v.coll = TranscriptCollection(s)
                                        /\ TranscriptFilter(v, s)}
    IN  \E docs \in (IF file_ids # {} /\ docOk
                     THEN Retrievals(docMatches) ELSE {<<>>}),
           trans \in (IF transOk THEN Retrievals(transMatches) ELSE {<<>>}) :
          LET merged == docs \o trans
          IN  /\ rag' = [session |-> sid, doc_chunks |-> docs,
                         trans_chunks |-> trans, all_chunks |-> merged,
                         context |-> Trim(SortBySimilarity(merged)),
                         doc_ok |-> (file_ids = {} \/ docOk),
                         trans_ok |-> transOk]
              /\ lastOp' = [name |-> "generate_report_task", arg |-> sid,
                            result |-> "field"]

(***************************************************************************)
(* Specification of the retrieval pipeline                                 *)
(***************************************************************************)
FileRow(s, st) ==
    [exists |-> TRUE, session |-> s, status |-> st, file_type |-> "pdf"]
TranscriptRow(s, st, text, mid) ==
    [exists |-> TRUE, session |-> s, status |-> st, text |-> text,
     mongo_id |-> mid]

InitRag ==
    /\ files \in {g \in [FileIds -> {NoRow, FileRow("s1", "processed"),
                                     FileRow("s2", "processed")}] :
                    /\ g["f1"] = FileRow("s1", "processed")
                    /\ g["f2"] \in {NoRow, FileRow("s2", "processed")}}
    /\ chunkRows = {}
    /\ transcripts =
         [t \in TranscriptIds |->
            CASE t = "t1" -> TranscriptRow("s1", "completed", <<"a", "b">>,
                                           StrOf(ObjectId(1)))
              [] t = "t2" -> TranscriptRow("s2", "completed", <<"c">>, NoMongoId)
              [] t = "t3" -> TranscriptRow("s1", "in_progress", <<"d">>, NoMongoId)
              [] t = "t4" -> TranscriptRow("s2", "completed", <<>>,
                                           StrOf(ObjectId(2)))
              [] OTHER -> NoRow]
    /\ mongoDocs = {[_id |-> ObjectId(1), text |-> <<"a", "b">>],
                    [_id |-> ObjectId(2), text |-> <<"e">>]}
    /\ chroma = {}
    /\ rag = NoRag
    /\ lastOp = [name |-> "init", arg |-> None, result |-> None]
    /\ queue = [f \in FileIds |-> 0]
    /\ signalEnq = [f \in FileIds |-> 0]
    /\ createdIds = {}
    /\ ingestRuns = [f \in FileIds |-> 0]
    /\ InitIdleTranscription
    /\ InitIdleRate
    /\ InitIdleMore

\* process_file_task on a document whose text splits into n chunks, every
\* step succeeding
IngestFile(f, n) ==
    /\ files[f] # NoRow
    /\ chroma' = chroma \cup {StoreEmbedding(f, i, 1) : i \in 0..(n - 1)}
    /\ lastOp' = [name |-> "process_file_task", arg |-> f,
                  result |-> "processed"]
    /\ rag' = NoRag
    /\ UNCHANGED <<files, chunkRows, transcripts, mongoDocs, ingestVars,
                   transVars, rateVars, moreVars>>

EmbedTranscript(tid) ==
    /\ embed_transcript_task(tid)
    /\ rag' = NoRag
    /\ UNCHANGED <<files, chunkRows, transcripts, mongoDocs, ingestVars,
                   transVars, rateVars, moreVars>>

\* vectors found in a session collection that neither pipeline wrote: the
\* shapes clean_vectors looks for there (no session_id, not a transcript),
\* here file vectors with or without a session tag
LegacyVectors ==
    {Vector(SessionCollection(c), f, s, None, None, 0, 0) :
        c \in Sessions, f \in FileIds, s \in Sessions \cup {None}}

LegacyVector(v) ==
    /\ Cardinality(chroma \cap LegacyVectors) < MaxLegacy
    /\ chroma' = chroma \cup {v}
    /\ lastOp' = [name |-> "legacy_vector", arg |-> None, result |-> None]
    /\ rag' = NoRag
    /\ UNCHANGED <<files, chunkRows, transcripts, mongoDocs, ingestVars,
                   transVars, rateVars, moreVars>>

GenerateReport(sid, docOk, transOk) ==
    /\ GenerateReportField(sid, docOk, transOk)
    /\ UNCHANGED <<files, chunkRows, transcripts, mongoDocs, chroma,
                   ingestVars, transVars, rateVars, moreVars>>

NextRag ==
    \/ \E f \in FileIds, n \in 1..MaxIngestChunks : IngestFile(f, n)
    \/ \E tid \in TranscriptIds : EmbedTranscript(tid)
    \/ \E v \in LegacyVectors : LegacyVector(v)
    \/ \E sid \in Sessions, docOk \in BOOLEAN, transOk \in BOOLEAN :
          GenerateReport(sid, docOk, transOk)

SpecRag == InitRag /\ [][NextRag]_vars

(***************************************************************************)
(* File upload and the ingestion task                                      *)
(***************************************************************************)
Extensions == {".pdf", ".txt", ".mp3", ".bin"}

\* InputFileSerializer.create: the file type follows from the extension
FileTypeOf(ext) ==
    IF ext \in {".mp3", ".wav", ".ogg", ".m4a", ".webm"} THEN "audio"
    ELSE IF ext = ".pdf" THEN "pdf"
    ELSE IF ext = ".docx" THEN "docx"
    ELSE IF ext = ".txt" THEN "txt"
    ELSE "other"

UploadedRow(s, ext) ==
    [exists |-> TRUE, session |-> s, status |-> "uploaded",
     file_type |-> FileTypeOf(ext)]

\* the post_save receiver: number of process_file_task messages it hands to
\* transaction.on_commit for one save of row
EnqueueOnEverySave(row, created) == IF row.status = "uploaded" THEN 1 ELSE 0
_enqueue_ingest_on_create(row, created) ==
    IF created /\ row.status = "uploaded" THEN 1 ELSE 0

\* Model.save() of an InputFile row in autocommit mode: the row is written,
\* post_save is sent, the callbacks given to on_commit run at once
SaveFile(f, row, created) ==
    LET n == _enqueue_ingest_on_create(row, created)
    IN  /\ files' = [files EXCEPT ![f] = row]
        /\ queue' = [queue EXCEPT ![f] = @ + n]
        /\ signalEnq' = [signalEnq EXCEPT ![f] = @ + n]

\* POST /files/: ok says whether the INSERT went through
Upload(f, s, ext, ok) ==
    /\ files[f] = NoRow /\ f \notin createdIds
    /\ IF ok
       THEN /\ SaveFile(f, UploadedRow(s, ext), TRUE)
            /\ createdIds' = createdIds \cup {f}
       ELSE UNCHANGED <<files, queue, signalEnq, createdIds, moreVars>>
    /\ lastOp' = [name |-> "upload", arg |-> f,
                  result |-> IF ok THEN "created" ELSE "rejected"]
    /\ rag' = NoRag
    /\ UNCHANGED <<chunkRows, chroma, transcripts, mongoDocs, ingestRuns,
                   transVars, rateVars, moreVars>>

\* PUT/PATCH /files/<id>/: status is read-only, the file type is not
UpdateFile(f, ty) ==
    /\ files[f] # NoRow
    /\ SaveFile(f, [files[f] EXCEPT !.file_type = ty], FALSE)
    /\ lastOp' = [name |-> "update", arg |-> f, result |-> "saved"]
    /\ rag' = NoRag
    /\ UNCHANGED <<chunkRows, chroma, transcripts, mongoDocs, createdIds,
                   ingestRuns, transVars, rateVars, moreVars>>

\* POST /files/<id>/process/
ProcessAction(f) ==
    /\ files[f] # NoRow
    /\ IF files[f].status \in {"uploaded", "failed"}
       THEN LET row == [files[f] EXCEPT !.status = "processing"]
                sent == _enqueue_ingest_on_create(row, FALSE)
            IN  /\ files' = [files EXCEPT ![f] = row]
                \* the save, then process_file_task.delay
                /\ queue' = [queue EXCEPT ![f] = @ + sent + 1]
                /\ signalEnq' = [signalEnq EXCEPT ![f] = @ + sent]
            /\ lastOp' = [name |-> "process", arg |-> f, result |-> "started"]
       ELSE /\ UNCHANGED <<files, queue, signalEnq, moreVars>>
            /\ lastOp' = [name |-> "process", arg |-> f, result |-> "400"]
    /\ rag' = NoRag
    /\ UNCHANGED <<chunkRows, chroma, transcripts, mongoDocs, createdIds,
                   ingestRuns, transVars, rateVars, moreVars>>

\* DELETE /files/<id>/: the chunk rows go with the file, the vectors stay
Destroy(f) ==
    /\ files[f] # NoRow
    /\ files' = [files EXCEPT ![f] = NoRow]
    /\ chunkRows' = {r \in chunkRows : r.file # f}
    /\ lastOp' = [name |-> "destroy", arg |-> f, result |-> "deleted"]
    /\ rag' = NoRag
    /\ UNCHANGED <<chroma, transcripts, mongoDocs, queue, signalEnq,
                   createdIds, ingestRuns, transVars, rateVars, moreVars>>

\* where a run of the pipeline breaks, if anywhere: text extraction, the
\* MongoDB insert, the splitter, the embedding call or the vector store
\* insert (the last two while handling the chunk with index failAt)
Failures == {"none", "extract", "mongo", "split", "embed", "store"}

\* process_chunks: ProcessedChunk rows and vectors written before the loop
\* ends or breaks; its result is TRUE when the loop ran to the end
ChunkIndexesCreated(n, failure, failAt) ==
    IF failure = "split" THEN {}
    ELSE IF failure \in {"embed", "store"} THEN 0..failAt
    ELSE 0..(n - 1)

ChunkIndexesStored(n, failure, failAt) ==
    IF failure = "split" THEN {}
    ELSE IF failure \in {"embed", "store"} THEN 0..(failAt - 1)
    ELSE 0..(n - 1)

process_chunks(failure) == failure \notin {"split", "embed", "store"}

\* process_pdf / process_docx / process_text: the result of process_chunks
\* is awaited and dropped
ProcessDocument(failure) == failure \notin {"extract", "mongo"}

\* process_file: the status the file is saved with at the end
ProcessFileStatus(file_type, failure) ==
    IF file_type \in {"pdf", "docx", "txt"}
    THEN IF ProcessDocument(failure) THEN "processed" ELSE "failed"
    ELSE "failed"

\* a Celery worker takes one process_file_task message for f; the document
\* splits into n chunks
process_file_task(f, n, failure, failAt) ==
    /\ queue[f] > 0
    /\ ingestRuns[f] < MaxIngestRuns
    /\ failure \in {"embed", "store"} => failAt \in 0..(n - 1)
    /\ failure \notin {"embed", "store"} => failAt = 0
    /\ IF files[f] = NoRow
       THEN /\ queue' = [queue EXCEPT ![f] = @ - 1]
            /\ UNCHANGED <<files, chunkRows, chroma, signalEnq, ingestRuns, moreVars>>
            /\ lastOp' = [name |-> "process_file_task", arg |-> f,
                          result |-> "not_found", nchunks |-> 0,
                          failure |-> "none", run |-> 0]
       ELSE LET run == ingestRuns[f] + 1
                doc == files[f].file_type \in {"pdf", "docx", "txt"}
                reached == doc /\ failure \notin {"extract", "mongo"}
                created == IF reached
                           THEN ChunkIndexesCreated(n, failure, failAt) ELSE {}
                stored == IF reached
                          THEN ChunkIndexesStored(n, failure, failAt) ELSE {}
                status == ProcessFileStatus(files[f].file_type, failure)
                \* the two saves: status 'processing', then the final status
                sent == _enqueue_ingest_on_create(
                            [files[f] EXCEPT !.status = "processing"], FALSE)
                        + _enqueue_ingest_on_create(
                            [files[f] EXCEPT !.status = status], FALSE)
            IN  /\ ingestRuns' = [ingestRuns EXCEPT ![f] = run]
                /\ files' = [files EXCEPT ![f].status = status]
                /\ queue' = [queue EXCEPT ![f] = @ - 1 + sent]
                /\ signalEnq' = [signalEnq EXCEPT ![f] = @ + sent]
                /\ chunkRows' = chunkRows \cup
                      {[file |-> f, chunk_index |-> i, run |-> run,
                        embedded |-> i \in stored] : i \in created}
                /\ chroma' = chroma \cup
                      {StoreEmbedding(f, i, run) : i \in stored}
                /\ lastOp' = [name |-> "process_file_task", arg |-> f,
                              result |-> status, nchunks |-> n,
                              failure |-> IF doc THEN failure ELSE "none",
                              run |-> run]
    /\ rag' = NoRag
    /\ UNCHANGED <<transcripts, mongoDocs, createdIds, transVars, rateVars,
                   moreVars>>

InitIngest ==
    /\ files = [f \in FileIds |-> NoRow]
    /\ chunkRows = {}
    /\ transcripts = [t \in TranscriptIds |-> NoRow]
    /\ mongoDocs = {}
    /\ chroma = {}
    /\ rag = NoRag
    /\ lastOp = [name |-> "init", arg |-> None, result |-> None]
    /\ queue = [f \in FileIds |-> 0]
    /\ signalEnq = [f \in FileIds |-> 0]
    /\ createdIds = {}
    /\ ingestRuns = [f \in FileIds |-> 0]
    /\ InitIdleTranscription
    /\ InitIdleRate
    /\ InitIdleMore

NextIngest ==
    \/ \E f \in FileIds, s \in Sessions, ext \in Extensions, ok \in BOOLEAN :
          Upload(f, s, ext, ok)
    \/ \E f \in FileIds, ty \in {"pdf", "audio"} : UpdateFile(f, ty)
    \/ \E f \in FileIds : ProcessAction(f)
    \/ \E f \in FileIds : Destroy(f)
    \/ \E f \in FileIds, n \in 0..MaxIngestChunks, failure \in Failures,
          failAt \in 0..MaxIngestChunks :
          process_file_task(f, n, failure, failAt)

SpecIngest == InitIngest /\ [][NextIngest]_vars

(***************************************************************************)
(* Live transcription over the WebSocket                                   *)
(***************************************************************************)
MaxTranscripts == 1     \* transcripts started in one behaviour
MaxQueued == 1          \* embed_transcript_task messages waiting at once
MaxHeard == 2           \* segments Whisper returns for one transcript
BatchSize == 5          \* audio chunks collected before a Whisper call
PreviewLimit == 1000    \* characters of text kept in the Transcript row

Users == {Anonymous, "u1", "u2"}
UrlSessionIds == Sessions \cup {"s9"}       \* "s9": no such session
SessionOwner == [s \in Sessions |-> IF s = "s1" THEN "u1" ELSE "u2"]
TranscriptSeq == <<"t1", "t2", "t3", "t4", "t5">>

\* segments of a verbose_json transcription: start times are relative to the
\* batch, so a later batch may hold the earlier start time
WhisperSegments == {[text |-> "a", start |-> 1], [text |-> "b", start |-> 0]}
WhisperResults == {<<>>} \cup {<<g>> : g \in WhisperSegments}

\* the transcripts a behaviour can create, and one id that never exists
EmbedTargets == {TranscriptSeq[i] : i \in 1..MaxTranscripts} \cup {"t5"}

\* what the last consumer, service or broker step reports in lastOp
WsOp == [name |-> "websocket", arg |-> None, result |-> None]

\* messages waiting in the embed queue for the transcripts ids
RECURSIVE Queued(_)
Queued(ids) ==
    IF ids = {} THEN 0
    ELSE LET t == CHOOSE x \in ids : TRUE
         IN  embedQueue[t] + Queued(ids \ {t})

\* f'transcription_{self.session_id}'
RoomGroupName(sid) == "transcription_" \o sid

\* validate_session: the session exists and belongs to the user
ValidateSessionAnyOwner(user, sid) == sid \in Sessions
validate_session(user, sid) ==
    sid \in Sessions /\ SessionOwner[sid] = user

\* TranscriptionConsumer.connect
Connect(user, sid) ==
    /\ conn.state = "idle"
    /\ IF user = Anonymous
       THEN /\ conn' = [IdleConn EXCEPT !.state = "closed",
                           !.close_code = 4003, !.user = user,
                           !.session_id = sid]
            /\ UNCHANGED groups
       ELSE IF ~validate_session(user, sid)
       THEN /\ conn' = [IdleConn EXCEPT !.state = "closed",
                           !.close_code = 4004, !.user = user,
                           !.session_id = sid]
            /\ UNCHANGED groups
       ELSE /\ groups' = groups \cup {RoomGroupName(sid)}
            /\ conn' = [IdleConn EXCEPT !.state = "accepted", !.user = user,
                           !.session_id = sid, !.has_service = TRUE]
    /\ lastOp' = WsOp
    /\ rag' = NoRag
    /\ UNCHANGED <<files, chunkRows, transcripts, mongoDocs, chroma,
                   segments, heard, embedQueue, ingestVars, rateVars,
                   moreVars>>

\* full_text[:1000] + "..." if len(full_text) > 1000 else full_text
Preview(text) ==
    IF Len(text) > PreviewLimit
    THEN SubSeq(text, 1, PreviewLimit) \o <<"...">>
    ELSE text

\* rows.order_by('start_time'), as the sequence of their texts
RECURSIVE TextsByStart(_)
TextsByStart(rows) ==
    IF rows = {} THEN <<>>
    ELSE LET first == CHOOSE r \in rows :
                          \A q \in rows : r.start_time <= q.start_time
         IN  <<first.text>> \o TextsByStart(rows \ {first})

\* TranscriptionService._process_current_chunks: the result of the Whisper
\* call is sent to the client; rows is what it adds to TranscriptionSegment
SegmentRowsSaved(tid, result, n) == {}

\* state after TranscriptionService.stop(): whisperOk/result is the answer
\* to the flush of the remaining chunks, finalizeOk whether
\* _finalize_transcript ran through
StopService(c, whisperOk, result, finalizeOk) ==
    LET tid == c.svc_transcript
        flush == c.svc_chunks > 0
        got == IF flush /\ whisperOk THEN result ELSE <<>>
        segs == segments \cup
                (IF tid # None
                 THEN SegmentRowsSaved(tid, got, Len(heard[tid]))
                 ELSE {})
        finalize == tid # None /\ finalizeOk
        full_text == IF finalize
                     THEN TextsByStart({r \in segs : r.transcript = tid})
                     ELSE <<>>
        oid == ObjectId(Cardinality(mongoDocs) + 1)
    IN  [conn |-> [c EXCEPT !.svc_streaming = FALSE, !.svc_chunks = 0],
         segments |-> segs,
         heard |-> IF tid # None
                   THEN [heard EXCEPT ![tid] = @ \o got] ELSE heard,
         mongoDocs |-> IF finalize
                       THEN mongoDocs \cup {[_id |-> oid, text |-> full_text]}
                       ELSE mongoDocs,
         transcripts |-> IF finalize
                         THEN [transcripts EXCEPT ![tid] =
                                 [@ EXCEPT !.status = "completed",
                                           !.text = Preview(full_text),
                                           !.mongo_id = StrOf(oid)]]
                         ELSE transcripts]

\* TranscriptionConsumer.stop_transcription
StopTranscription(c, whisperOk, result, finalizeOk) ==
    IF ~c.is_streaming
    THEN [conn |-> c, segments |-> segments, heard |-> heard,
          mongoDocs |-> mongoDocs, transcripts |-> transcripts]
    ELSE IF ~c.svc_streaming
    THEN [conn |-> [c EXCEPT !.is_streaming = FALSE], segments |-> segments,
          heard |-> heard, mongoDocs |-> mongoDocs,
          transcripts |-> transcripts]
    ELSE LET after == StopService(c, whisperOk, result, finalizeOk)
         IN  [after EXCEPT !.conn = [after.conn EXCEPT !.is_streaming = FALSE]]

HeardFits(c, result) ==
    c.svc_transcript # None =>
        Len(heard[c.svc_transcript]) + Len(result) <= MaxHeard

\* receive(): command 'start'; created says whether the Transcript row
\* could be created
Start(created) ==
    /\ conn.state = "accepted"
    /\ created =>
          Cardinality({t \in TranscriptIds : transcripts[t] # NoRow})
             < MaxTranscripts
    /\ lastOp' = WsOp
    /\ IF conn.is_streaming
       THEN UNCHANGED <<conn, transcripts, moreVars>>
       ELSE IF ~created
       THEN /\ conn' = [conn EXCEPT !.transcript = None]
            /\ UNCHANGED transcripts
       ELSE LET tid == TranscriptSeq[
                    Cardinality({t \in TranscriptIds :
                                    transcripts[t] # NoRow}) + 1]
            IN  /\ transcripts' = [transcripts EXCEPT ![tid] =
                      TranscriptRow(conn.session_id, "in_progress", <<>>,
                                    NoMongoId)]
                /\ conn' = [conn EXCEPT !.is_streaming = TRUE,
                               !.transcript = tid, !.svc_streaming = TRUE,
                               !.svc_transcript = tid]
    /\ rag' = NoRag
    /\ UNCHANGED <<files, chunkRows, mongoDocs, chroma, groups, segments,
                   heard, embedQueue, ingestVars, rateVars, moreVars>>

\* receive(): binary audio data
ReceiveAudio(whisperOk, result) ==
    /\ conn.state = "accepted"
    /\ conn.is_streaming
    /\ HeardFits(conn, result)
    /\ IF ~conn.svc_streaming
       THEN UNCHANGED <<conn, segments, heard, moreVars>>
       ELSE IF conn.svc_chunks + 1 < BatchSize
       THEN /\ conn' = [conn EXCEPT !.svc_chunks = @ + 1]
            /\ UNCHANGED <<segments, heard, moreVars>>
       ELSE LET tid == conn.svc_transcript
                got == IF whisperOk THEN result ELSE <<>>
            IN  /\ conn' = [conn EXCEPT !.svc_chunks = 0]
                /\ segments' = segments \cup
                      SegmentRowsSaved(tid, got, Len(heard[tid]))
                /\ heard' = [heard EXCEPT ![tid] = @ \o got]
    /\ lastOp' = WsOp
    /\ rag' = NoRag
    /\ UNCHANGED <<files, chunkRows, transcripts, mongoDocs, chroma, groups,
                   embedQueue, ingestVars, rateVars, moreVars>>

\* receive(): command 'stop'
Stop(whisperOk, result, finalizeOk) ==
    /\ conn.state = "accepted"
    /\ HeardFits(conn, result)
    /\ LET after == StopTranscription(conn, whisperOk, result, finalizeOk)
       IN  /\ conn' = after.conn
           /\ segments' = after.segments
           /\ heard' = after.heard
           /\ mongoDocs' = after.mongoDocs
           /\ transcripts' = after.transcripts
    /\ lastOp' = WsOp
    /\ rag' = NoRag
    /\ UNCHANGED <<files, chunkRows, chroma, groups, embedQueue, ingestVars,
                   rateVars, moreVars>>

\* receive(): command 'pause'
Pause ==
    /\ conn.state = "accepted"
    /\ conn' = [conn EXCEPT !.is_streaming = FALSE]
    /\ lastOp' = WsOp
    /\ rag' = NoRag
    /\ UNCHANGED <<files, chunkRows, transcripts, mongoDocs, chroma, groups,
                   segments, heard, embedQueue, ingestVars, rateVars,
                   moreVars>>

\* receive(): command 'resume'
Resume ==
    /\ conn.state = "accepted"
    /\ conn' = IF ~conn.is_streaming /\ conn.transcript # None
               THEN [conn EXCEPT !.is_streaming = TRUE] ELSE conn
    /\ lastOp' = WsOp
    /\ rag' = NoRag
    /\ UNCHANGED <<files, chunkRows, transcripts, mongoDocs, chroma, groups,
                   segments, heard, embedQueue, ingestVars, rateVars,
                   moreVars>>

\* TranscriptionConsumer.disconnect; the next connection gets a new consumer
Disconnect(whisperOk, result, finalizeOk) ==
    /\ conn.state \in {"accepted", "closed"}
    /\ HeardFits(conn, result)
    /\ LET after == IF conn.has_service
                    THEN StopTranscription(conn, whisperOk, result, finalizeOk)
                    ELSE [conn |-> conn, segments |-> segments,
                          heard |-> heard, mongoDocs |-> mongoDocs,
                          transcripts |-> transcripts]
       IN  /\ segments' = after.segments
           /\ heard' = after.heard
           /\ mongoDocs' = after.mongoDocs
           /\ transcripts' = after.transcripts
    /\ groups' = groups \ {RoomGroupName(conn.session_id)}
    /\ conn' = IdleConn
    /\ lastOp' = WsOp
    /\ rag' = NoRag
    /\ UNCHANGED <<files, chunkRows, chroma, embedQueue, ingestVars, rateVars,
                   moreVars>>

\* embed_transcript_task.delay(tid), sent by hand: no code of the
\* repository sends it
RequestEmbed(tid) ==
    /\ tid \in EmbedTargets
    /\ Queued(TranscriptIds) < MaxQueued
    /\ embedQueue' = [embedQueue EXCEPT ![tid] = 1]
    /\ lastOp' = WsOp
    /\ rag' = NoRag
    /\ UNCHANGED <<files, chunkRows, transcripts, mongoDocs, chroma, conn,
                   groups, segments, heard, ingestVars, rateVars, moreVars>>

\* a Celery worker takes one embed_transcript_task message
EmbedWorker(tid) ==
    /\ embedQueue[tid] > 0
    /\ embedQueue' = [embedQueue EXCEPT ![tid] = @ - 1]
    /\ embed_transcript_task(tid)
    /\ rag' = NoRag
    /\ UNCHANGED <<files, chunkRows, transcripts, mongoDocs, conn, groups,
                   segments, heard, ingestVars, rateVars, moreVars>>

InitTranscribe ==
    /\ files = [f \in FileIds |-> NoRow]
    /\ chunkRows = {}
    /\ transcripts = [t \in TranscriptIds |-> NoRow]
    /\ mongoDocs = {}
    /\ chroma = {}
    /\ rag = NoRag
    /\ lastOp = [name |-> "init", arg |-> None, result |-> None]
    /\ queue = [f \in FileIds |-> 0]
    /\ signalEnq = [f \in FileIds |-> 0]
    /\ createdIds = {}
    /\ ingestRuns = [f \in FileIds |-> 0]
    /\ InitIdleTranscription
    /\ InitIdleRate
    /\ InitIdleMore

Workers == \E tid \in TranscriptIds : EmbedWorker(tid)

NextTranscribe ==
    \/ \E user \in Users, sid \in UrlSessionIds : Connect(user, sid)
    \/ \E created \in BOOLEAN : Start(created)
    \/ \E ok \in BOOLEAN, result \in WhisperResults : ReceiveAudio(ok, result)
    \/ \E ok \in BOOLEAN, result \in WhisperResults, fin \in BOOLEAN :
          Stop(ok, result, fin)
    \/ Pause
    \/ Resume
    \/ \E ok \in BOOLEAN, result \in WhisperResults, fin \in BOOLEAN :
          Disconnect(ok, result, fin)
    \/ \E tid \in TranscriptIds : RequestEmbed(tid)
    \/ Workers

SpecTranscribe == InitTranscribe /\ [][NextTranscribe]_vars

\* Celery runs every message that stays in the queue
FairSpecTranscribe == SpecTranscribe /\ WF_vars(Workers)

(***************************************************************************)
(* The rate_limit decorator                                                *)
(***************************************************************************)
RateLimit == 2          \* limit of every decorated view
RatePeriod == 2         \* period, in clock ticks
MaxTime == 4            \* the clock stops here

\* block argument of the decorator, per key_prefix
Block == [p \in Prefixes |-> p = "auth"]

\* HTTP_X_FORWARDED_FOR, already split at ","; <<>> when the header is absent
ForwardedFor == {<<>>, <<"ip1">>, <<"ip2", "ip1">>}

get_client_ip(xff, remote) == IF xff # <<>> THEN Head(xff) ELSE remote

\* f"{key_prefix}:{client_ip}"
CacheKey(prefix, ip) == <<prefix, ip>>

\* cache.get(key): None once the timeout of the last set has run out
CacheGet(key) ==
    IF cache[key] # NoEntry /\ now <= cache[key].expires
    THEN cache[key] ELSE NoEntry

\* cache_data['count'] > limit
ExceedsLimitOffByOne(count, limit) == count > limit + 1
ExceedsLimit(count, limit) == count > limit

\* _wrapped_view up to the call of the view: the entry it leaves in the
\* cache, the status it answers with and whether the view ran
Limited(key, cache_data, current_time, limit, period, block) ==
    LET first == [count |-> 1, timestamp |-> current_time,
                  expires |-> current_time + period]
        incremented == [cache_data EXCEPT !.count = @ + 1,
                                          !.expires = current_time + period]
    IN  IF cache_data = NoEntry
        THEN [entry |-> first, status |-> 200, view_called |-> TRUE]
        ELSE IF current_time - cache_data.timestamp > period
        THEN [entry |-> first, status |-> 200, view_called |-> TRUE]
        ELSE IF ExceedsLimit(cache_data.count + 1, limit) /\ block
        THEN [entry |-> cache[key], status |-> 429, view_called |-> FALSE]
        ELSE [entry |-> incremented, status |-> 200, view_called |-> TRUE]

\* the window the request falls in, counted from the requests alone
NextWindow(w, current_time, period, served) ==
    IF w = NoWindow \/ current_time - w.start > period
    THEN [start |-> current_time, requests |-> 1,
          served |-> IF served THEN 1 ELSE 0]
    ELSE [w EXCEPT !.requests = @ + 1,
                   !.served = IF served THEN @ + 1 ELSE @]

\* one request to a decorated view
Request(prefix, xff, remote) ==
    LET key == IF CacheKey(prefix, get_client_ip(xff, remote)) \in Keys
               THEN CacheKey(prefix, get_client_ip(xff, remote))
               ELSE CacheKey("auth", "ip1")
        out == Limited(key, CacheGet(key), now, RateLimit, RatePeriod,
                       Block[prefix])
        w == NextWindow(window[key], now, RatePeriod, out.view_called)
    IN  /\ CacheKey(prefix, get_client_ip(xff, remote)) \in Keys
        /\ w.requests <= RateLimit + 1      \* up to one request past the limit
        /\ cache' = [cache EXCEPT ![key] = out.entry]
        /\ window' = [window EXCEPT ![key] = w]
        /\ lastResp' = [key |-> key, status |-> out.status,
                        view_called |-> out.view_called]
        /\ UNCHANGED <<now, files, chunkRows, transcripts, mongoDocs, chroma,
                       rag, lastOp, ingestVars, transVars, moreVars>>

\* a second passes; the cache drops the entries whose timeout has run out
Tick ==
    /\ now < MaxTime
    /\ now' = now + 1
    /\ cache' = [k \in Keys |->
                    IF cache[k] # NoEntry /\ now' <= cache[k].expires
                    THEN cache[k] ELSE NoEntry]
    /\ UNCHANGED <<window, lastResp, files, chunkRows, transcripts, mongoDocs,
                   chroma, rag, lastOp, ingestVars, transVars, moreVars>>

InitRate == InitTranscribe

NextRate ==
    \/ \E prefix \in Prefixes, xff \in ForwardedFor, remote \in Ips :
          Request(prefix, xff, remote)
    \/ Tick

SpecRate == InitRate /\ [][NextRate]_vars

(***************************************************************************)
(* The OAuth state parameter                                               *)
(***************************************************************************)
MissingState == "Missing state parameter"
InvalidState == "Invalid or expired state parameter"

\* cache.get(f"oauth_state:{state}"): <<>> stands for None
StoredState(state) ==
    IF \E e \in oauthCache : e.key = state
    THEN (CHOOSE e \in oauthCache : e.key = state).value
    ELSE <<>>

\* if ":" in stored_state: _, client_state = stored_state.split(":", 1)
ClientStateOf(stored_state) ==
    IF Len(stored_state) > 1 THEN stored_state[2] ELSE ""

\* generate_secure_state(client_state)
GenerateSecureState(client_state) ==
    /\ Cardinality(issued) < MaxStates
    /\ LET combined_state ==
               CombinedState(Cardinality(issued) + 1, client_state)
           state_hash == StateHash(combined_state)
       IN  /\ oauthCache' = {e \in oauthCache : e.key # state_hash}
                               \cup {[key |-> state_hash,
                                      value |-> combined_state]}
           /\ issued' = issued \cup {state_hash}
    /\ UNCHANGED <<validating, accepts, oauthResp, exceptOauth>>

\* validate_state(state) up to and with cache.get
ValidateStateGet(w, state) ==
    /\ validating[w].pc = "idle"
    /\ IF state = EmptyState
       THEN /\ oauthResp' = [thread |-> w, state |-> state,
                             is_valid |-> FALSE, client_state |-> "",
                             error |-> MissingState]
            /\ UNCHANGED validating
       ELSE IF StoredState(state) = <<>>
       THEN /\ oauthResp' = [thread |-> w, state |-> state,
                             is_valid |-> FALSE, client_state |-> "",
                             error |-> InvalidState]
            /\ UNCHANGED validating
       ELSE /\ validating' = [validating EXCEPT ![w] =
                                 [pc |-> "got", state |-> state,
                                  stored |-> StoredState(state)]]
            /\ UNCHANGED oauthResp
    /\ UNCHANGED <<oauthCache, issued, accepts, exceptOauth>>

\* validate_state from cache.delete to the return
ValidateStateDelete(w) ==
    /\ validating[w].pc = "got"
    /\ oauthCache' = {e \in oauthCache : e.key # validating[w].state}
    /\ accepts' = [accepts EXCEPT ![validating[w].state] = @ + 1]
    /\ oauthResp' = [thread |-> w, state |-> validating[w].state,
                     is_valid |-> TRUE,
                     client_state |-> ClientStateOf(validating[w].stored),
                     error |-> None]
    /\ validating' = [validating EXCEPT ![w] = IdleThread]
    /\ UNCHANGED <<issued, exceptOauth>>

\* the 15 minutes of an entry run out
ExpireState(state) ==
    /\ \E e \in oauthCache : e.key = state
    /\ oauthCache' = {e \in oauthCache : e.key # state}
    /\ UNCHANGED <<issued, validating, accepts, oauthResp, exceptOauth>>

InitOauth == InitTranscribe

NextOauth ==
    \/ \E c \in ClientStates : GenerateSecureState(c)
    \/ \E w \in Threads, state \in StateValues : ValidateStateGet(w, state)
    \/ \E w \in Threads : ValidateStateDelete(w)
    \/ \E state \in StateValues : ExpireState(state)

SpecOauth == InitOauth /\ [][NextOauth]_vars

(***************************************************************************)
(* Output configurations (session_manager / output_manager)                *)
(***************************************************************************)
\* number of TemplateField rows of the OutputTemplates a request can name;
\* 0 stands for a request without template_id
TemplateSizes == {0, 2, 9}

\* an OutputField row: its name (n numbers template fields and default
\* names); prompt and order have no part in the checks on the field count
OutputFieldRow(name, n) == [name |-> name, n |-> n]

\* template.fields.all(), as the OutputField rows made from them
RECURSIVE TemplateFields(_)
TemplateFields(k) ==
    IF k = 0 THEN <<>>
    ELSE Append(TemplateFields(k - 1), OutputFieldRow("template", k))

\* rows[:k]
FirstFields(rows, k) == SubSeq(rows, 1, IF Len(rows) < k THEN Len(rows) ELSE k)

\* OutputService.add_output_field: existing_fields >= MAX_FIELDS
MaxFieldsReachedOffByOne(existing_fields) == existing_fields > MAX_FIELDS
MaxFieldsReached(existing_fields) == existing_fields >= MAX_FIELDS

\* create_output_field: existing_fields >= 7
ViewMaxFieldsReached(existing_fields) == existing_fields >= 7

\* POST sessions/<id>/configuration/create/
CreateOutputConfiguration(s, size) ==
    /\ IF s \in outConfigs
       THEN UNCHANGED <<outConfigs, outFields>>
       ELSE /\ outConfigs' = outConfigs \cup {s}
            /\ outFields' = [outFields EXCEPT ![s] =
                                FirstFields(TemplateFields(size), MAX_FIELDS)]
    /\ outResp' = [op |-> "create_output_configuration", config |-> s,
                   status |-> 201, before |-> Len(outFields[s])]
    /\ UNCHANGED exceptOut

\* POST configurations/<id>/fields/add/; named: name and prompt are given
AddOutputField(s, named) ==
    /\ s \in outConfigs
    /\ IF ~named \/ MaxFieldsReached(Len(outFields[s]))
       THEN /\ UNCHANGED outFields
            /\ outResp' = [op |-> "add_output_field", config |-> s,
                           status |-> 400, before |-> Len(outFields[s])]
       ELSE /\ outFields' = [outFields EXCEPT ![s] =
                                Append(@, OutputFieldRow("given", 0))]
            /\ outResp' = [op |-> "add_output_field", config |-> s,
                           status |-> 201, before |-> Len(outFields[s])]
    /\ UNCHANGED <<outConfigs, exceptOut>>

\* POST to create_output_field of session_manager; named: the body has a
\* name, otherwise the field is called f'Field {existing_fields + 1}'
CreateOutputField(s, named) ==
    /\ outConfigs' = outConfigs \cup {s}
    /\ IF ViewMaxFieldsReached(Len(outFields[s]))
       THEN /\ UNCHANGED outFields
            /\ outResp' = [op |-> "create_output_field", config |-> s,
                           status |-> 400, before |-> Len(outFields[s])]
       ELSE /\ outFields' = [outFields EXCEPT ![s] = Append(@,
                   IF named
                   THEN OutputFieldRow("given", 0)
                   ELSE OutputFieldRow("Field", Len(outFields[s]) + 1))]
            /\ outResp' = [op |-> "create_output_field", config |-> s,
                           status |-> 201, before |-> Len(outFields[s])]
    /\ UNCHANGED exceptOut

InitOut == InitTranscribe

NextOut ==
    \/ \E s \in Sessions, size \in TemplateSizes :
          CreateOutputConfiguration(s, size)
    \/ \E s \in Sessions, named \in BOOLEAN : AddOutputField(s, named)
    \/ \E s \in Sessions, named \in BOOLEAN : CreateOutputField(s, named)

SpecOut == InitOut /\ [][NextOut]_vars

(***************************************************************************)
(* Reports: templates, the generate and export actions and                 *)
(* generate_report_task from the field loop to its return                  *)
(***************************************************************************)
MaxGenerations == 2     \* generate_report_task runs in one behaviour
MaxPending == 1         \* task messages of one kind waiting at once
MaxVersions == 2        \* highest version_number create_version hands out

ReportStatuses == {"draft", "generated", "refined", "finalized"}
NoFormat == "absent"    \* request body without 'format'
Formats == {NoFormat, "pdf", "DOCX", "txt"}

\* JSON values a structure is made of
JsonStr == [type |-> "str", names |-> <<>>]
JsonList(names) == [type |-> "list", names |-> names]
JsonDict == [type |-> "dict", names |-> <<>>]
Item(key, cfg) == [key |-> key, cfg |-> cfg]

\* the structure of the system templates of ensure_templates
SystemStructure ==
    <<Item("slug", JsonStr),
      Item("fields", JsonList(<<"client_details", "goals_progress",
                               "recommendations">>))>>

\* structures submitted through the API: a list of fields, and a dict that
\* maps field names to their configuration
SubmittedList == JsonList(<<"note">>)
SubmittedDict == <<Item("summary", JsonDict), Item("goals", JsonDict)>>
FlatKeys == {"summary", "goals"}

\* TemplateSerializer.validate_structure, for a submitted list
validate_structure(value) == <<Item("fields", value)>>

TemplateRow(structure) == [exists |-> TRUE, structure |-> structure]
ReportRow(s, t, st, content) ==
    [exists |-> TRUE, session |-> s, template |-> t, status |-> st,
     content |-> content]

\* str.lower() of the formats a request can carry
Lower(format) ==
    IF format = "DOCX" THEN "docx"
    ELSE IF format = "PDF" THEN "pdf"
    ELSE format

\* request.data.get('format', 'pdf').lower()
FormatParam(format) == IF format = NoFormat THEN "pdf" ELSE Lower(format)

\* report.status not in ['draft', 'generated']
GenerateAllowedAlsoRefined(status) ==
    status \in {"draft", "generated", "refined"}
GenerateAllowed(status) == status \in {"draft", "generated"}

\* report.status not in ['generated', 'refined', 'finalized']
ExportAllowed(status) == status \in {"generated", "refined", "finalized"}

\* manage.py ensure_templates
EnsureTemplates ==
    /\ templates' = [templates EXCEPT !["progress"] =
                        IF @ = NoTemplate THEN TemplateRow(SystemStructure)
                        ELSE @]
    /\ repResp' = NoRepResp
    /\ taskResult' = NoTaskResult
    /\ UNCHANGED <<reports, repFields, versions, exported, genQueue,
                   exportQueue, genRuns, exceptReport>>

\* POST templates/ with a list ("listed") or a dict ("flat") as structure
CreateTemplate(t) ==
    /\ t \in {"listed", "flat"}
    /\ templates[t] = NoTemplate
    /\ templates' = [templates EXCEPT ![t] =
                        IF t = "listed"
                        THEN TemplateRow(validate_structure(SubmittedList))
                        ELSE TemplateRow(SubmittedDict)]
    /\ repResp' = NoRepResp
    /\ taskResult' = NoTaskResult
    /\ UNCHANGED <<reports, repFields, versions, exported, genQueue,
                   exportQueue, genRuns, exceptReport>>

\* DELETE templates/<id>/: Report.template is SET_NULL
DeleteTemplate(t) ==
    /\ templates[t] # NoTemplate
    /\ templates' = [templates EXCEPT ![t] = NoTemplate]
    /\ reports' = [r \in ReportIds |->
                      IF reports[r] # NoRow /\ reports[r].template = t
                      THEN [reports[r] EXCEPT !.template = None]
                      ELSE reports[r]]
    /\ repResp' = NoRepResp
    /\ taskResult' = NoTaskResult
    /\ UNCHANGED <<repFields, versions, exported, genQueue, exportQueue,
                   genRuns, exceptReport>>

\* POST reports/
CreateReport(r, t) ==
    /\ reports[r] = NoRow
    /\ templates[t] # NoTemplate
    /\ reports' = [reports EXCEPT ![r] = ReportRow("s1", t, "draft", {})]
    /\ repResp' = NoRepResp
    /\ taskResult' = NoTaskResult
    /\ UNCHANGED <<templates, repFields, versions, exported, genQueue,
                   exportQueue, genRuns, exceptReport>>

\* PATCH reports/<id>/ with a status (also what refine_field_content_task
\* and finalizing do to the status)
UpdateReport(r, st) ==
    /\ reports[r] # NoRow
    /\ reports[r].status # st
    /\ reports' = [reports EXCEPT ![r].status = st]
    /\ repResp' = NoRepResp
    /\ taskResult' = NoTaskResult
    /\ UNCHANGED <<templates, repFields, versions, exported, genQueue,
                   exportQueue, genRuns, exceptReport>>

\* POST reports/<id>/generate/
Generate(r) ==
    /\ reports[r] # NoRow
    /\ genQueue[r] < MaxPending
    /\ IF ~GenerateAllowed(reports[r].status)
       THEN /\ repResp' = [op |-> "generate", report |-> r, code |-> 400,
                           format |-> None, before |-> reports[r],
                           gen_before |-> genQueue[r],
                           export_before |-> exportQueue]
            /\ UNCHANGED <<reports, genQueue>>
       ELSE /\ reports' = [reports EXCEPT ![r].status = "draft"]
            /\ genQueue' = [genQueue EXCEPT ![r] = @ + 1]
            /\ repResp' = [op |-> "generate", report |-> r, code |-> 200,
                           format |-> None, before |-> reports[r],
                           gen_before |-> genQueue[r],
                           export_before |-> exportQueue]
    /\ taskResult' = NoTaskResult
    /\ UNCHANGED <<templates, repFields, versions, exported, exportQueue,
                   genRuns, exceptReport>>

\* POST reports/<id>/export/
Export(r, format) ==
    /\ reports[r] # NoRow
    /\ LET format_param == FormatParam(format)
           accepted == /\ format_param \in {"pdf", "docx"}
                       /\ ExportAllowed(reports[r].status)
           message == [report |-> r, format |-> format_param]
       IN  /\ accepted => /\ message \notin exportQueue
                       /\ Cardinality(exportQueue) < MaxPending
           /\ exportQueue' = IF accepted THEN exportQueue \cup {message}
                             ELSE exportQueue
           /\ repResp' = [op |-> "export", report |-> r,
                          code |-> IF accepted THEN 200 ELSE 400,
                          format |-> format, before |-> reports[r],
                          gen_before |-> genQueue[r],
                          export_before |-> exportQueue]
    /\ taskResult' = NoTaskResult
    /\ UNCHANGED <<templates, reports, repFields, versions, exported,
                   genQueue, genRuns, exceptReport>>

\* highest version_number of the report, 0 without versions
LatestVersion(r) ==
    IF \E v \in versions : v.report = r
    THEN CHOOSE n \in {v.version_number : v \in {x \in versions :
                                                    x.report = r}} :
             \A v \in versions : v.report = r => v.version_number <= n
    ELSE 0

\* POST reports/<id>/create_version/
CreateVersion(r) ==
    /\ reports[r] # NoRow
    /\ LatestVersion(r) < MaxVersions
    /\ versions' = versions \cup
                      {[report |-> r, version_number |-> LatestVersion(r) + 1,
                        content |-> reports[r].content]}
    /\ repResp' = NoRepResp
    /\ taskResult' = NoTaskResult
    /\ UNCHANGED <<templates, reports, repFields, exported, genQueue,
                   exportQueue, genRuns, exceptReport>>

\* a worker runs export_report_task; ok: the file could be rendered
ExportTask(message, ok) ==
    /\ message \in exportQueue
    /\ exportQueue' = exportQueue \ {message}
    /\ exported' = IF ok /\ reports[message.report] # NoRow
                   THEN exported \cup {message} ELSE exported
    /\ repResp' = NoRepResp
    /\ taskResult' = NoTaskResult
    /\ UNCHANGED <<templates, reports, repFields, versions, genQueue,
                   genRuns, exceptReport>>

\* field_config.get(...): only a dict has it
HasGet(cfg) == cfg.type = "dict"

\* number of items the field loop gets through before field_config.get
\* raises AttributeError
RECURSIVE Processed(_, _)
Processed(structure, i) ==
    IF i > Len(structure) THEN Len(structure)
    ELSE IF ~HasGet(structure[i].cfg) THEN i - 1
    ELSE Processed(structure, i + 1)

\* field.value after the LLM call for the field
FieldValueNoError(outcome, run) == [text |-> "generated", run |-> run]
FieldValue(outcome, run) ==
    IF outcome = "ok" THEN [text |-> "generated", run |-> run]
    ELSE [text |-> "Error generating content", run |-> run]

\* a worker runs generate_report_task; llm says for each field whether
\* llm.invoke returns or raises.  The retrieval done for each field is
\* specified by GenerateReportField
GenerateReportTask(r, llm) ==
    /\ genQueue[r] > 0
    /\ genRuns < MaxGenerations
    /\ genQueue' = [genQueue EXCEPT ![r] = @ - 1]
    /\ repResp' = NoRepResp
    /\ IF reports[r] = NoRow
       THEN /\ taskResult' = [NoTaskResult EXCEPT !.report = r,
                                 !.error = "Report not found"]
            /\ UNCHANGED <<reports, repFields, versions, genRuns>>
       ELSE IF reports[r].template = None
       THEN /\ taskResult' = [NoTaskResult EXCEPT !.report = r,
                   !.error = "No template associated with this report"]
            /\ UNCHANGED <<reports, repFields, versions, genRuns>>
       ELSE LET structure == templates[reports[r].template].structure
                n == Processed(structure, 1)
                run == genRuns + 1
                names == {structure[i].key : i \in 1..n}
                report_content ==
                    {[name |-> k, value |-> FieldValue(llm[k], run)] :
                        k \in names}
                completed == n = Len(structure)
                duplicate == \E v \in versions :
                                v.report = r /\ v.version_number = 1
            IN  /\ genRuns' = run
                /\ repFields' =
                      {f \in repFields : ~(f.report = r /\ f.name \in names)}
                         \cup {[report |-> r, name |-> c.name,
                                value |-> c.value] : c \in report_content}
                /\ reports' = IF completed
                              THEN [reports EXCEPT ![r].status = "generated",
                                       ![r].content = report_content]
                              ELSE reports
                /\ versions' = IF completed /\ ~duplicate
                               THEN versions \cup
                                       {[report |-> r, version_number |-> 1,
                                         content |-> report_content]}
                               ELSE versions
                /\ taskResult' =
                      [report |-> r,
                       success |-> completed /\ ~duplicate,
                       error |-> IF ~completed THEN "AttributeError"
                                 ELSE IF duplicate THEN "IntegrityError"
                                 ELSE None,
                       run |-> run,
                       llm_failed |-> {k \in names : llm[k] # "ok"},
                       llm_ok |-> {k \in names : llm[k] = "ok"}]
    /\ UNCHANGED <<templates, exported, exportQueue, exceptReport>>

InitReport == InitTranscribe

NextReport ==
    \/ EnsureTemplates
    \/ \E t \in TemplateIds : CreateTemplate(t)
    \/ \E t \in TemplateIds : DeleteTemplate(t)
    \/ \E r \in ReportIds, t \in TemplateIds : CreateReport(r, t)
    \/ \E r \in ReportIds, st \in ReportStatuses : UpdateReport(r, st)
    \/ \E r \in ReportIds : Generate(r)
    \/ \E r \in ReportIds, format \in Formats : Export(r, format)
    \/ \E r \in ReportIds : CreateVersion(r)
    \/ \E r \in ReportIds, format \in {"pdf", "docx"}, ok \in BOOLEAN :
          ExportTask([report |-> r, format |-> format], ok)
    \/ \E r \in ReportIds, llm \in [FlatKeys -> {"ok", "fail"}] :
          GenerateReportTask(r, llm)

SpecReport == InitReport /\ [][NextReport]_vars

(***************************************************************************)
(* Properties of upload and ingestion                                      *)
(***************************************************************************)
\* C4: every InputFile row the upload endpoint created had process_file_task
\* enqueued by the post_save receiver exactly once, whatever saves followed;
\* nothing is enqueued for a row that was never committed.
C4_EnqueuedOncePerUpload ==
    \A f \in FileIds :
        /\ signalEnq[f] = (IF f \in createdIds THEN 1 ELSE 0)
        /\ queue[f] > 0 => f \in createdIds

\* an uploaded file was updated through the API while still 'uploaded',
\* then processed by the task, which saved it twice more
C4_Witness ==
    /\ "f1" \in createdIds
    /\ files["f1"] # NoRow
    /\ files["f1"].file_type = "audio"
    /\ ingestRuns["f1"] >= 1
    /\ signalEnq["f1"] = 1
    /\ lastOp.name = "process_file_task" /\ lastOp.arg = "f1"

\* C5: after process_file_task a file is 'processed' only if its text was
\* extracted and every chunk of it has a ProcessedChunk row with an
\* embedding and a vector in the store; when the splitter, the embedding or
\* the vector-store insert fails the file is 'failed'.
C5_ProcessedOnlyIfAllChunksStored ==
    (lastOp.name = "process_file_task" /\ lastOp.result # "not_found") =>
        LET f == lastOp.arg
        IN  /\ files[f].status = "processed" =>
                 /\ lastOp.failure \notin {"extract", "mongo"}
                 /\ \A i \in 0..(lastOp.nchunks - 1) :
                       /\ \E r \in chunkRows :
                             /\ r.file = f /\ r.chunk_index = i
                             /\ r.run = lastOp.run /\ r.embedded
                       /\ StoreEmbedding(f, i, lastOp.run) \in chroma
            /\ lastOp.failure \in {"split", "embed", "store"} =>
                 files[f].status = "failed"

(***************************************************************************)
(* Properties of the retrieval pipeline                                    *)
(***************************************************************************)
IsDescending(chunks) ==
    \A i \in 1..(Len(chunks) - 1) :
        SimilarityKey(chunks[i]) >= SimilarityKey(chunks[i + 1])

OwnedBy(v, s) ==
    /\ v.file_id # None => v.file_id \in SessionFileIds(s)
    /\ v.session_id \notin Sessions \ {s}

\* C1: the chunks assembled for a report of session A hold no document chunk
\* whose file_id is a file of another session and no chunk whose session_id
\* metadata is another session: every document chunk has a file_id among
\* A's files and every transcript chunk has session_id = A.
C1_NoCrossSessionLeakage ==
    rag.session # None =>
        /\ \A i \in DOMAIN rag.doc_chunks :
              /\ rag.doc_chunks[i].file_id \in SessionFileIds(rag.session)
              /\ OwnedBy(rag.doc_chunks[i], rag.session)
        /\ \A i \in DOMAIN rag.trans_chunks :
              rag.trans_chunks[i].session_id = rag.session
        /\ \A i \in DOMAIN rag.context : OwnedBy(rag.context[i], rag.session)

\* a report of s1 whose context holds a document chunk and a transcript
\* chunk while the store also holds vectors of session s2
C1_Witness ==
    /\ rag.session = "s1"
    /\ \E i \in DOMAIN rag.context : rag.context[i].file_id # None
    /\ \E i \in DOMAIN rag.context : rag.context[i].type = "transcript"
    /\ \E v \in chroma : v.session_id = "s2"
    /\ \E v \in chroma : v.file_id = "f2"

\* the session has vectors written by the ingestion pipeline
HasIngestedChunks(s) ==
    \E v \in chroma : v.coll = DocumentChunks /\ v.file_id \in SessionFileIds(s)

\* the session has vectors written by embed_transcript_task
HasEmbeddedTranscript(s) ==
    \E v \in chroma : v.transcript_id # None /\ v.session_id = s

\* C2: when the session has ingested file chunks and embedded transcript
\* chunks and both retrievers answer, the merged list (before trimming)
\* holds a chunk the ingestion pipeline wrote and a transcript chunk.
C2_MergesBothKinds ==
    (/\ rag.session # None
     /\ rag.doc_ok /\ rag.trans_ok
     /\ HasIngestedChunks(rag.session)
     /\ HasEmbeddedTranscript(rag.session)) =>
        /\ \E i \in DOMAIN rag.all_chunks :
              rag.all_chunks[i].coll = DocumentChunks
        /\ \E i \in DOMAIN rag.all_chunks :
              rag.all_chunks[i].type = "transcript"

\* C3: the chunks used to build a field's context are in non-increasing
\* order of similarity, a chunk without similarity counting as 0.
C3_ContextSortedBySimilarity ==
    rag.session # None => IsDescending(rag.context)

\* the retrievers returned chunks out of order, one of them without a
\* similarity, and the context holds two chunks
C3_Witness ==
    /\ rag.session # None
    /\ ~IsDescending(rag.all_chunks)
    /\ Len(rag.context) >= 2
    /\ Len(rag.doc_chunks) > 0 /\ Len(rag.trans_chunks) > 0
    /\ \E i \in DOMAIN rag.all_chunks : rag.all_chunks[i].similarity = NoSim

\* C8: a run of embed_transcript_task only adds vectors, adds them only for
\* a transcript that exists, is completed and has text, puts every added
\* vector into session_<transcript's session> with type 'transcript' and
\* that session as session_id, and otherwise leaves the store as it was.
C8_EmbedOnlyCompletedIntoOwnSession ==
    [][lastOp'.name = "embed_transcript_task" =>
         LET tid == lastOp'.arg
             t == transcripts[tid]
             added == chroma' \ chroma
             eligible == /\ t # NoRow
                         /\ t.status = "completed"
                         /\ t.text # <<>>
         IN  /\ chroma \subseteq chroma'
             /\ ~eligible => chroma' = chroma
             /\ eligible =>
                  /\ added # {}
                  /\ \A v \in added :
                        /\ v.coll = SessionCollection(t.session)
                        /\ v.type = "transcript"
                        /\ v.session_id = t.session
                        /\ v.transcript_id = tid]_vars

\* the task has just embedded the completed transcript t2 of session s2
C8_Witness ==
    /\ lastOp.name = "embed_transcript_task"
    /\ lastOp.arg = "t2"
    /\ lastOp.result = "embedded"
    /\ \E v \in chroma : v.transcript_id = "t2" /\ v.coll = "session_s2"

(***************************************************************************)
(* Properties of live transcription                                        *)
(***************************************************************************)
\* the segments Whisper returned for the transcript, as rows
HeardRows(tid) ==
    {[text |-> heard[tid][i].text, start_time |-> heard[tid][i].start,
      n |-> i] : i \in DOMAIN heard[tid]}

\* C6: every segment Whisper returned for a batch of the transcript is
\* stored as one of its TranscriptionSegment rows, and the text of a
\* completed transcript is the texts of all segments transcribed during
\* the recording, in start-time order.
C6_FinalTextIsAllSegments ==
    \A tid \in TranscriptIds :
        transcripts[tid] # NoRow =>
            /\ \A h \in HeardRows(tid) :
                  \E r \in segments :
                      /\ r.transcript = tid
                      /\ r.text = h.text
                      /\ r.start_time = h.start_time
            /\ transcripts[tid].status = "completed" =>
                  transcripts[tid].text = TextsByStart(HeardRows(tid))

\* C7: every transcript that reaches status 'completed' has
\* embed_transcript_task run for it at some later time.
C7_CompletedEventuallyEmbedded ==
    \A tid \in TranscriptIds :
        (transcripts[tid] # NoRow /\ transcripts[tid].status = "completed")
            ~> (lastOp.name = "embed_transcript_task" /\ lastOp.arg = tid)

\* the user is authenticated and the session exists and is theirs
MayConnect(user, sid) ==
    /\ user # Anonymous
    /\ sid \in Sessions
    /\ IF sid \in Sessions THEN SessionOwner[sid] = user ELSE FALSE

\* C9: the connection is accepted, in the session's group or given a
\* transcription service only if the user is authenticated and the session
\* exists and belongs to the user; an anonymous user is closed with 4003, a
\* missing or foreign session with 4004, with no group joined and no
\* service created.
C9_AcceptOnlyOwnSession ==
    /\ conn.state = "accepted" =>
          /\ MayConnect(conn.user, conn.session_id)
          /\ RoomGroupName(conn.session_id) \in groups
    /\ groups # {} =>
          /\ conn.state = "accepted"
          /\ groups = {RoomGroupName(conn.session_id)}
    /\ conn.has_service => conn.state = "accepted"
    /\ conn.state = "closed" =>
          /\ ~MayConnect(conn.user, conn.session_id)
          /\ conn.close_code = (IF conn.user = Anonymous THEN 4003 ELSE 4004)
          /\ ~conn.has_service
          /\ groups = {}
    /\ conn.state \in {"idle", "accepted", "closed"}

\* user u1 is connected to their session s1 and recording
C9_Witness ==
    /\ conn.state = "accepted"
    /\ conn.user = "u1" /\ conn.session_id = "s1"
    /\ conn.is_streaming
    /\ groups = {RoomGroupName("s1")}

C11_StateAcceptedAtMostOnce ==
    /\ \A v \in StateValues :
          /\ accepts[v] <= 1
          /\ accepts[v] > 0 => v \in issued
    /\ (oauthResp.thread # None /\ ~oauthResp.is_valid
           /\ oauthResp.state # EmptyState) =>
          oauthResp.error = InvalidState

C13_GenerateExportGuards ==
    /\ repResp.op # "none" => repResp.code \in {200, 400}
    /\ repResp.code = 400 =>
          /\ reports[repResp.report] = repResp.before
          /\ genQueue[repResp.report] = repResp.gen_before
          /\ exportQueue = repResp.export_before
    /\ repResp.op = "generate" =>
          /\ (repResp.code = 200) =
                (repResp.before.status \in {"draft", "generated"})
          /\ repResp.code = 200 =>
                genQueue[repResp.report] = repResp.gen_before + 1
    /\ repResp.op = "export" =>
          /\ (repResp.code = 200) =
                (/\ repResp.before.status \in
                       {"generated", "refined", "finalized"}
                 /\ repResp.format \in {NoFormat, "pdf", "docx", "PDF", "DOCX"})
          /\ repResp.code = 200 =>
                /\ exportQueue # repResp.export_before
                /\ reports[repResp.report] = repResp.before

\* a generate request for a finalized report was just refused while an
\* export of the report is waiting
C13_Witness ==
    /\ repResp.op = "generate"
    /\ repResp.code = 400
    /\ repResp.before.status = "finalized"
    /\ exportQueue # {}

\* the fields a template structure declares: the entries of its "fields"
\* list, or else the keys that map to a field configuration
DeclaredFields(structure) ==
    IF \E i \in DOMAIN structure : structure[i].cfg.type = "list"
    THEN UNION {{structure[i].cfg.names[j] :
                    j \in DOMAIN structure[i].cfg.names} :
                i \in {k \in DOMAIN structure : structure[k].cfg.type = "list"}}
    ELSE {structure[i].key :
             i \in {k \in DOMAIN structure : structure[k].cfg.type = "dict"}}

\* C14: a generate_report_task run, which only an accepted generate
\* request causes, returns success and leaves the report 'generated' with
\* a ReportVersion that holds the content this run generated.
C14_GenerateRecordsVersion ==
    taskResult.report # None =>
        LET r == taskResult.report
        IN  /\ taskResult.success
            /\ reports[r].status = "generated"
            /\ \A c \in reports[r].content : c.value.run = taskResult.run
            /\ \E v \in versions :
                  /\ v.report = r
                  /\ v.content = reports[r].content

\* C15: after a generate_report_task run for a report with a template the
\* report has exactly one OutputField per field the template's structure
\* declares, named after it, and no other OutputField.
C15_OneOutputFieldPerTemplateField ==
    (taskResult.report # None /\ reports[taskResult.report].template # None) =>
        LET r == taskResult.report
            rows == {f \in repFields : f.report = r}
        IN  /\ {f.name : f \in rows} =
                  DeclaredFields(templates[reports[r].template].structure)
            /\ \A f \in rows, g \in rows : f.name = g.name => f = g

\* C16: when llm.invoke failed for a field during a generate_report_task
\* run, that field's value is an 'Error generating content' message, the
\* fields whose call returned hold generated text, the report is
\* 'generated' and its content has an entry for every field of the
\* template.
C16_LlmFailureIsPerField ==
    (taskResult.report # None /\ taskResult.llm_failed # {}) =>
        LET r == taskResult.report
            rows == {f \in repFields : f.report = r}
        IN  /\ \A k \in taskResult.llm_failed :
                  /\ \E f \in rows :
                        /\ f.name = k
                        /\ f.value.text = "Error generating content"
                  /\ \E c \in reports[r].content :
                        /\ c.name = k
                        /\ c.value.text = "Error generating content"
            /\ \A k \in taskResult.llm_ok :
                  /\ \E f \in rows :
                        f.name = k /\ f.value = [text |-> "generated",
                                                 run |-> taskResult.run]
                  /\ \E c \in reports[r].content :
                        c.name = k /\ c.value.text = "generated"
            /\ reports[r].status = "generated"
            /\ {c.name : c \in reports[r].content} =
                  DeclaredFields(templates[reports[r].template].structure)

\* the LLM call failed for 'goals' and returned for 'summary' in the second
\* generation of a report
C16_Witness ==
    /\ taskResult.report = "r1"
    /\ taskResult.llm_failed = {"goals"}
    /\ taskResult.llm_ok = {"summary"}
    /\ taskResult.run = 2
    /\ reports["r1"].status = "generated"

====
